---- MODULE Spec2Model ----
(***************************************************************************)
(* Student Application Portal, web front-end.                              *)
(*                                                                         *)
(* The model covers the fetch-based API client (api/client.js: request,    *)
(* parseJsonOrText, errorFromResponse) and the view layer of App.js        *)
(* (AppShell, TopNav, RequireAuth, RequireRole, LoginPage, RegisterPage,   *)
(* StudentDashboard, AdminDashboard).  Every await of the code is a point  *)
(* where the handler is suspended: the HTTP request it waits for sits in   *)
(* `net` and the rest of the handler runs, atomically, when the response   *)
(* arrives.  The backend is the environment: it may answer any request     *)
(* with a failure, and when it accepts a request it does what was asked.   *)
(***************************************************************************)
EXTENDS Integers, Sequences, FiniteSets, Bags, TLC

VARIABLES
    token,      \* AppShell state `token` ('' when signed out)
    storage,    \* localStorage entry 'sap_token' (NoItem when absent)
    me,         \* AppShell state `me` (NoUser is null)
    loadingMe,  \* AppShell state `loadingMe`
    route,      \* location.pathname after the routes' <Navigate> redirects
    screen,     \* the element the matched route renders
    login,      \* LoginPage state [busy, error]
    register,   \* RegisterPage state [busy, error]
    student,    \* StudentDashboard state [apps, busy, error, info]
    admin,      \* AdminDashboard state [apps, busy, error, info]
    net,        \* bag of the HTTP requests in flight
    db,         \* the backend's applications
    ev          \* history: the handler step that led to this state

vars == <<token, storage, me, loadingMe, route, screen, login, register,
          student, admin, net, db, ev>>

----------------------------------------------------------------------------
(* Bounds of the model *)

\* requests that may be in flight together
MaxInflight == 2
\* applications the backend stores
MaxApps == 1

----------------------------------------------------------------------------
(* JSON values, as JSON.parse yields them and JSON.stringify prints them *)

JNull == [t |-> "null"]
JStr(s) == [t |-> "string", s |-> s]
JNum(n) == [t |-> "number", n |-> n]
\* an object is the sequence of its <<key, value>> pairs, in insertion order
JObj(fields) == [t |-> "object", f |-> fields]

Undefined == [t |-> "undefined"]

\* obj.key
Get(obj, key) ==
    IF \E i \in 1..Len(obj.f) : obj.f[i][1] = key
    THEN obj.f[CHOOSE i \in 1..Len(obj.f) : obj.f[i][1] = key][2]
    ELSE Undefined

Quote(s) == "\"" \o s \o "\""

RECURSIVE Stringify(_)
RECURSIVE StringifyFields(_)
\* JSON.stringify(v)
Stringify(v) ==
    CASE v.t = "null" -> "null"
      [] v.t = "string" -> Quote(v.s)
      [] v.t = "number" -> ToString(v.n)
      [] v.t = "object" -> "{" \o StringifyFields(v.f) \o "}"
StringifyFields(f) ==
    IF f = <<>> THEN ""
    ELSE Quote(f[1][1]) \o ":" \o Stringify(f[1][2])
         \o (IF Len(f) > 1 THEN "," ELSE "") \o StringifyFields(Tail(f))

\* String(v), for the values that are not objects
ToJsString(v) ==
    CASE v.t = "null" -> "null"
      [] v.t = "string" -> v.s
      [] v.t = "number" -> ToString(v.n)

----------------------------------------------------------------------------
(* api/client.js *)

\* const detail = data.detail ?? data
DetailOrData(data) ==
    LET d == Get(data, "detail")
    IN  IF d.t \in {"undefined", "null"} THEN data ELSE d

errorFromResponse_nostatus(status, data) ==
    IF data.t = "object"
    THEN LET detail == DetailOrData(data)
         IN  IF detail.t = "string" THEN detail.s ELSE Stringify(detail)
    ELSE ToJsString(data)

\* the message of the Error that errorFromResponse(status, data) builds
errorFromResponse(status, data) ==
    IF data.t = "object"
    THEN LET detail == DetailOrData(data)
         IN  IF detail.t = "string" THEN detail.s
             ELSE ToString(status) \o ": " \o Stringify(detail)
    ELSE ToString(status) \o ": " \o ToJsString(data)

\* What the JSON parser reports for a body that is not JSON; the text is the
\* engine's own.
SyntaxErrorMessage == "Unexpected token < in JSON at position 0"

\* A response is [status, ctJson, valid, data]: its content type declares JSON
\* or not, its body is valid JSON for `data`, or is the raw text data.s.
\* parseJsonOrText(resp): resp.json() throws on a body that is not JSON, the
\* other branch falls back to the text.
parseJsonOrText(resp) ==
    IF resp.ctJson /\ ~resp.valid
    THEN [threw |-> TRUE, data |-> Undefined]
    ELSE [threw |-> FALSE, data |-> resp.data]

\* The message of the error that request() throws for a non-2xx response.
RequestError(resp) ==
    LET p == parseJsonOrText(resp)
    IN  IF p.threw THEN SyntaxErrorMessage
        ELSE errorFromResponse(resp.status, p.data)

NoHeader == "<none>"

\* if (token) headers.Authorization = `Bearer ${token}`
AuthHeader(tok) == IF tok = "" THEN NoHeader ELSE "Bearer " \o tok

----------------------------------------------------------------------------
(* The backend's answers *)

Tokens == {"tok-student", "tok-admin"}

NoUser == [email |-> "", roles |-> {}, null |-> TRUE]

\* GET /auth/me: the user the bearer token belongs to
UserOf(auth) ==
    CASE auth = "Bearer tok-student" ->
           [email |-> "student1@example.com", roles |-> {"student"}, null |-> FALSE]
      [] auth = "Bearer tok-admin" ->
           [email |-> "admin@example.com", roles |-> {"admin"}, null |-> FALSE]
      [] OTHER -> NoUser

\* POST /auth/login, /auth/register: the TokenResponse's access_token
AccessToken(email) ==
    IF email = "admin@example.com" THEN "tok-admin" ELSE "tok-student"

Emails == {"student1@example.com", "admin@example.com"}
\* RegisterPage registers students
NewEmails == {"student1@example.com"}


\* Non-2xx responses the backend (or a proxy in front of it) may give.
FailResponses == {
    [status |-> 401, ctJson |-> TRUE, valid |-> TRUE,
     data |-> JObj(<< <<"detail", JStr("Invalid token")>> >>)],
    [status |-> 422, ctJson |-> TRUE, valid |-> TRUE,
     data |-> JObj(<< <<"detail", JStr("")>> >>)],
    [status |-> 500, ctJson |-> FALSE, valid |-> FALSE,
     data |-> JStr("Internal Server Error")]
}

NoResp == [status |-> 0, ctJson |-> FALSE, valid |-> FALSE, data |-> Undefined]

----------------------------------------------------------------------------
(* Requests in flight.  A request record keeps what the suspended handler   *)
(* still holds in its closure: the token it was called with, the handler    *)
(* that awaits it (cont) and that handler's arguments.  live is FALSE once   *)
(* the component instance that started the request has been unmounted: its  *)
(* state setters then do nothing.                                           *)

\* request({apiBase, path, method, token, body}) for operation op
Req(op, tok) ==
    [op |-> op, token |-> tok, auth |-> AuthHeader(tok), live |-> TRUE,
     cont |-> "", email |-> "", id |-> 0, to |-> "", program |-> "",
     term |-> ""]

NoReq == [op |-> "none", token |-> "", auth |-> NoHeader, live |-> FALSE,
          cont |-> "", email |-> "", id |-> 0, to |-> "", program |-> "",
          term |-> ""]

InFlight == BagCardinality(net)
Requests == BagToSet(net)
Send(B, r) == B (+) SetToBag({r})
Recv(B, r) == B (-) SetToBag({r})

\* the component whose handler awaits a request of operation op
ViewOf(op) ==
    CASE op = "login" -> "LoginPage"
      [] op = "register" -> "RegisterPage"
      [] op \in {"list", "create", "submit", "withdraw"} -> "StudentDashboard"
      [] op \in {"adminList", "adminChange"} -> "AdminDashboard"
      [] OTHER -> "AppShell"

Orphaned(r, el) ==
    IF ViewOf(r.op) \in {el, "AppShell"} THEN r ELSE [r EXCEPT !.live = FALSE]

\* the requests in flight once only el (and the shell) is mounted
Orphan(B, el) == BagOfAll(LAMBDA r : Orphaned(r, el), B)

----------------------------------------------------------------------------
(* App.js: routing *)

Routes == {"/", "/login", "/register", "/student", "/admin", "/nowhere"}

\* const roles = me?.roles || []
Roles(m) == IF m.null THEN {} ELSE m.roles

\* RequireAuth: if (!token) return <Navigate to="/login" replace />
RequireAuth(tok, children) == IF tok = "" THEN "Navigate" ELSE children

RequireRole_open(roles, role, children) == children

\* RequireRole: if (!roles.includes(role)) return the access-denied card
RequireRole(roles, role, children) ==
    IF role \notin roles THEN "AccessDenied" ELSE children

\* the element of the route matching path r
Element(r, tok, m) ==
    CASE r = "/" -> "Home"
      [] r = "/login" -> IF tok # "" THEN "Navigate" ELSE "LoginPage"
      [] r = "/register" -> IF tok # "" THEN "Navigate" ELSE "RegisterPage"
      [] r = "/student" ->
           RequireAuth(tok, RequireRole(Roles(m), "student", "StudentDashboard"))
      [] r = "/admin" ->
           RequireAuth(tok, RequireRole(Roles(m), "admin", "AdminDashboard"))
      [] OTHER -> "NotFound"

\* where the <Navigate> elements of the routes lead from path r
Resolve(r, tok, m) ==
    IF Element(r, tok, m) # "Navigate" THEN r
    ELSE CASE r = "/login" -> IF "admin" \in Roles(m) THEN "/admin" ELSE "/student"
           [] r = "/register" -> "/student"
           [] OTHER -> "/login"

NoItem == "<absent>"

\* localStorage.getItem('sap_token') || ''
StoredToken(st) == IF st = NoItem THEN "" ELSE st

LoginInit == [busy |-> FALSE, error |-> ""]
RegisterInit == [busy |-> FALSE, error |-> ""]
\* (the Program and Term inputs keep their initial values)
StudentInit == [program |-> "Computer Science", term |-> "Fall 2026",
                apps |-> <<>>, busy |-> FALSE, error |-> "", info |-> ""]
AdminInit == [apps |-> <<>>, busy |-> FALSE, error |-> "", info |-> ""]

MsgOr_raw(msg, fallback) == msg

\* err.message || fallback
MsgOr(msg, fallback) == IF msg = "" THEN fallback ELSE msg

NoEv == [act |-> "", op |-> "", live |-> FALSE, cont |-> "", resp |-> NoResp,
         message |-> ""]

\* History: the catch block that ran last, if the last step was one.  It
\* names the handler, the request that failed (its operation, whether its
\* component was still mounted, the handler awaiting it), the response and
\* the message of the error request() threw.
Ev(act, req, resp) ==
    IF resp = NoResp THEN NoEv
    ELSE [act |-> act, op |-> req.op, live |-> req.live, cont |-> req.cont,
          resp |-> resp, message |-> RequestError(resp)]

\* The render after a handler: the new shell state and view states are
\* committed, the path is resolved through the routes, a view that is no
\* longer rendered is unmounted (its state is lost and its requests are
\* orphaned).
Render(tok, m, target, lv, rv, sv, av, nv) ==
    LET r == Resolve(target, tok, m)
        el == Element(r, tok, m)
    IN  /\ token' = tok
        /\ me' = m
        /\ route' = r
        /\ screen' = el
        /\ login' = IF el = "LoginPage" THEN lv ELSE LoginInit
        /\ register' = IF el = "RegisterPage" THEN rv ELSE RegisterInit
        /\ student' = IF el = "StudentDashboard" THEN sv ELSE StudentInit
        /\ admin' = IF el = "AdminDashboard" THEN av ELSE AdminInit
        /\ net' = Orphan(nv, el)

\* AppShell() on page load at path url
Init ==
    /\ storage \in {NoItem} \cup Tokens
    /\ token = StoredToken(storage)
    /\ me = NoUser
    /\ loadingMe = FALSE
    /\ \E url \in Routes :
         /\ route = Resolve(url, token, me)
         /\ screen = Element(route, token, me)
    /\ login = LoginInit
    /\ register = RegisterInit
    /\ student = StudentInit
    /\ admin = AdminInit
    /\ net = EmptyBag
    /\ db = <<>>
    /\ ev = NoEv

\* The browser reloads the page: every component starts anew, pending
\* fetches are dropped, localStorage survives.
Reload ==
    /\ Render(StoredToken(storage), NoUser, route, LoginInit, RegisterInit,
              StudentInit, AdminInit, EmptyBag)
    /\ loadingMe' = FALSE
    /\ ev' = Ev("load", NoReq, NoResp)
    /\ UNCHANGED <<storage, db>>

\* TopNav's links, the brand link, LoginPage's and NotFound's links
LinkShown(to) ==
    CASE to = "/" -> TRUE
      [] to \in {"/login", "/register"} -> token = ""
      [] to = "/student" -> token # "" /\ "student" \in Roles(me)
      [] to = "/admin" -> token # "" /\ "admin" \in Roles(me)
      [] OTHER -> FALSE

ClickLink(to) ==
    /\ LinkShown(to)
    /\ to # route
    /\ Render(token, me, to, login, register, student, admin, net)
    /\ ev' = Ev("link", NoReq, NoResp)
    /\ UNCHANGED <<storage, loadingMe, db>>

----------------------------------------------------------------------------
(* App.js: AppShell *)

\* localStorage.removeItem('sap_token')
removeItem_kept(st) == st

removeItem(st) == NoItem

setItem_lost(st, t) == st

\* localStorage.setItem('sap_token', t)
setItem(st, t) == t

\* refreshMe(nextToken) up to its await, for a token that is not empty:
\* apiMe is called whether or not another call is pending
SendMe(B, tok, cont) == Send(B, [Req("me", tok) EXCEPT !.cont = cont])

\* TopNav "Refresh session": onRefreshMe() with nextToken = token.  The
\* button is shown when isAuthed and is not disabled while loadingMe.
RefreshSession ==
    /\ token # ""
    /\ InFlight < MaxInflight
    /\ loadingMe' = TRUE
    /\ Render(token, me, route, login, register, student, admin,
              SendMe(net, token, ""))
    /\ ev' = Ev("refreshMe", NoReq, NoResp)
    /\ UNCHANGED <<storage, db>>

\* TopNav "Logout": onLogout
Logout ==
    /\ token # ""
    /\ storage' = removeItem(storage)
    /\ Render("", NoUser, "/login", login, register, student, admin, net)
    /\ ev' = Ev("onLogout", NoReq, NoResp)
    /\ UNCHANGED <<loadingMe, db>>

\* after `await refreshMe(t)` in onAuthed: navigate('/student')
AfterRefresh(r) == IF r.cont = "onAuthed" THEN "/student" ELSE route

\* refreshMe after its await, apiMe resolved: setMe(data), setLoadingMe(false)
MeOk(r) ==
    /\ r.op = "me"
    /\ ~UserOf(r.auth).null
    /\ loadingMe' = FALSE
    /\ Render(token, UserOf(r.auth), AfterRefresh(r), login, register, student,
              admin, Recv(net, r))
    /\ ev' = Ev("MeOk", r, NoResp)
    /\ UNCHANGED <<storage, db>>

\* refreshMe's catch: console.error(e), setMe(null), setToken(''),
\* removeItem, then setLoadingMe(false)
MeFail(r, resp) ==
    /\ r.op = "me"
    /\ loadingMe' = FALSE
    /\ storage' = removeItem(storage)
    /\ Render("", NoUser, AfterRefresh(r), login, register, student, admin,
              Recv(net, r))
    /\ ev' = Ev("MeFail", r, resp)
    /\ UNCHANGED db

----------------------------------------------------------------------------
(* App.js: LoginPage and RegisterPage *)

\* LoginPage.submit up to its await (the button is disabled while busy)
LoginSubmit(email) ==
    /\ screen = "LoginPage"
    /\ ~login.busy
    /\ InFlight < MaxInflight
    /\ LET q == [Req("login", "") EXCEPT !.email = email]
       IN  /\ Render(token, me, route, [busy |-> TRUE, error |-> ""], register,
                     student, admin, Send(net, q))
           /\ ev' = Ev("login", NoReq, NoResp)
    /\ UNCHANGED <<storage, loadingMe, db>>

\* RegisterPage.submit up to its await
RegisterSubmit(email) ==
    /\ screen = "RegisterPage"
    /\ ~register.busy
    /\ InFlight < MaxInflight
    /\ LET q == [Req("register", "") EXCEPT !.email = email]
       IN  /\ Render(token, me, route, login, [busy |-> TRUE, error |-> ""],
                     student, admin, Send(net, q))
           /\ ev' = Ev("register", NoReq, NoResp)
    /\ UNCHANGED <<storage, loadingMe, db>>

\* submit after its await, apiLogin/apiRegister resolved: onAuthed(t) runs
\* setToken(t), setItem, and refreshMe(t) up to its await
AuthOk(r) ==
    /\ r.op \in {"login", "register"}
    /\ LET t == AccessToken(r.email)
       IN  /\ storage' = setItem(storage, t)
           /\ loadingMe' = TRUE
           /\ Render(t, me, route, login, register, student, admin,
                     SendMe(Recv(net, r), t, "onAuthed"))
    /\ ev' = Ev("AuthOk", r, NoResp)
    /\ UNCHANGED db

\* submit's catch and finally: setError(err.message || '... failed'),
\* setBusy(false)
AuthFail(r, resp) ==
    /\ r.op \in {"login", "register"}
    /\ Render(token, me, route,
              IF r.op = "login" /\ r.live
              THEN [busy |-> FALSE,
                    error |-> MsgOr(RequestError(resp), "Login failed")]
              ELSE login,
              IF r.op = "register" /\ r.live
              THEN [busy |-> FALSE,
                    error |-> MsgOr(RequestError(resp), "Registration failed")]
              ELSE register,
              student, admin, Recv(net, r))
    /\ ev' = Ev("AuthFail", r, resp)
    /\ UNCHANGED <<storage, loadingMe, db>>

----------------------------------------------------------------------------
(* The backend's applications *)

\* GET /applications/my: the applications of the token's user
MyApplications(auth) ==
    SelectSeq(db, LAMBDA a : a.student_user_id = UserOf(auth).email)

\* GET /admin/applications?limit=50&offset=0 (the Status and Search filters
\* are left empty: status || null and q || null add no parameter)
AdminApplications == db

\* POST /applications: a new draft of the token's user
Created(r) ==
    [id |-> Len(db) + 1, student_user_id |-> UserOf(r.auth).email,
     program |-> r.program, term |-> r.term, status |-> "draft"]

\* the applications with the status of application id set to st
WithStatus(id, st) ==
    [i \in DOMAIN db |-> IF db[i].id = id THEN [db[i] EXCEPT !.status = st]
                         ELSE db[i]]

----------------------------------------------------------------------------
(* App.js: StudentDashboard *)

\* setError(''); setInfo(''); setBusy(true)
Starting(v) == [v EXCEPT !.error = "", !.info = "", !.busy = TRUE]

\* catch and finally: setError(e.message || fallback); setBusy(false)
Failed(v, resp, fallback) ==
    [v EXCEPT !.error = MsgOr(RequestError(resp), fallback), !.busy = FALSE]

\* a handler of the dashboard, started by a button that is disabled while busy
StudentClick(q) ==
    /\ screen = "StudentDashboard"
    /\ ~student.busy
    /\ InFlight < MaxInflight
    /\ Render(token, me, route, login, register, Starting(student), admin,
              Send(net, q))
    /\ ev' = Ev(q.op, NoReq, NoResp)
    /\ UNCHANGED <<storage, loadingMe, db>>

\* "Refresh": refresh() up to its await
StudentRefresh == StudentClick(Req("list", token))

\* "Create draft": createDraft() up to its await
CreateDraft ==
    StudentClick([Req("create", token) EXCEPT !.program = student.program,
                                              !.term = student.term])

\* disabled={busy || !['draft', 'needs_info'].includes(a.status)}
SubmitEnabled(status) == status \in {"draft", "needs_info"}

\* disabled={busy || ['approved', 'rejected', 'withdrawn'].includes(a.status)}
WithdrawEnabled(status) == status \notin {"approved", "rejected", "withdrawn"}

\* "Submit" of row i: submitApp(a.id) up to its await
SubmitApp(i) ==
    /\ i \in DOMAIN student.apps
    /\ SubmitEnabled(student.apps[i].status)
    /\ StudentClick([Req("submit", token) EXCEPT !.id = student.apps[i].id])

\* "Withdraw" of row i: withdrawApp(a.id) up to its await
WithdrawApp(i) ==
    /\ i \in DOMAIN student.apps
    /\ WithdrawEnabled(student.apps[i].status)
    /\ StudentClick([Req("withdraw", token) EXCEPT !.id = student.apps[i].id])

\* the call of refresh() that ends createDraft, submitApp and withdrawApp: it
\* runs in the closure of the handler that awaited r
ThenList(r) ==
    [Req("list", r.token) EXCEPT !.live = r.live, !.cont = r.op,
                                 !.program = r.program, !.term = r.term]

ListOk_stale(r) ==
    /\ r.op = "list"
    /\ Render(token, me, route, login, register,
              IF r.live THEN [student EXCEPT !.busy = FALSE] ELSE student,
              admin, Recv(net, r))
    /\ ev' = Ev("ListOk", r, NoResp)
    /\ UNCHANGED <<storage, loadingMe, db>>

\* refresh after its await, apiListMyApplications resolved: setApps(data),
\* setBusy(false)
ListOk(r) ==
    /\ r.op = "list"
    /\ Render(token, me, route, login, register,
              IF r.live
              THEN [student EXCEPT !.apps = MyApplications(r.auth), !.busy = FALSE]
              ELSE student,
              admin, Recv(net, r))
    /\ ev' = Ev("ListOk", r, NoResp)
    /\ UNCHANGED <<storage, loadingMe, db>>

\* the fallback texts of the dashboard's catch blocks
StudentFallback(op) ==
    CASE op = "list" -> "Failed to load applications"
      [] op = "create" -> "Failed to create application"
      [] op = "submit" -> "Failed to submit application"
      [] op = "withdraw" -> "Failed to withdraw application"

StudentFail_logout(r, resp) ==
    /\ ViewOf(r.op) = "StudentDashboard"
    /\ IF resp.status = 401
       THEN /\ storage' = removeItem(storage)
            /\ Render("", NoUser, route, login, register, student, admin,
                      Recv(net, r))
       ELSE /\ storage' = storage
            /\ Render(token, me, route, login, register,
                      IF r.live
                      THEN Failed(student, resp, StudentFallback(r.op))
                      ELSE student,
                      admin, Recv(net, r))
    /\ ev' = Ev("StudentFail", r, resp)
    /\ UNCHANGED <<loadingMe, db>>

\* the catch and finally of refresh, createDraft, submitApp or withdrawApp
StudentFail(r, resp) ==
    /\ ViewOf(r.op) = "StudentDashboard"
    /\ Render(token, me, route, login, register,
              IF r.live THEN Failed(student, resp, StudentFallback(r.op))
              ELSE student,
              admin, Recv(net, r))
    /\ ev' = Ev("StudentFail", r, resp)
    /\ UNCHANGED <<storage, loadingMe, db>>

\* createDraft, submitApp or withdrawApp after its await, the call resolved:
\* setInfo(...), then refresh() up to its await, which clears the message
StudentDone(r) ==
    /\ r.op \in {"create", "submit", "withdraw"}
    /\ CASE r.op = "create" ->
              /\ Len(db) < MaxApps
              /\ ~UserOf(r.auth).null
              /\ db' = Append(db, Created(r))
         [] r.op = "submit" -> db' = WithStatus(r.id, "submitted")
         [] r.op = "withdraw" -> db' = WithStatus(r.id, "withdrawn")
    /\ Render(token, me, route, login, register,
              IF r.live THEN Starting(student) ELSE student,
              admin, Send(Recv(net, r), ThenList(r)))
    /\ ev' = Ev("StudentDone", r, NoResp)
    /\ UNCHANGED <<storage, loadingMe>>

----------------------------------------------------------------------------
(* App.js: AdminDashboard *)

\* a handler of the dashboard, started by a button that is disabled while busy
AdminClick(q) ==
    /\ screen = "AdminDashboard"
    /\ ~admin.busy
    /\ InFlight < MaxInflight
    /\ Render(token, me, route, login, register, student, Starting(admin),
              Send(net, q))
    /\ ev' = Ev(q.op, NoReq, NoResp)
    /\ UNCHANGED <<storage, loadingMe, db>>

\* "Refresh" and "Apply": refresh() up to its await
AdminRefresh ==
    AdminClick(Req("adminList", token))

ChangeTargets == {"in_review", "needs_info", "approved", "rejected"}

ChangeEnabled_lax(to, status) ==
    CASE to = "in_review" -> status \in {"submitted", "needs_info"}
      [] to = "needs_info" -> status \in {"submitted", "in_review"}
      [] to = "approved" -> status \in {"submitted", "in_review"}
      [] to = "rejected" ->
           status \in {"submitted", "in_review", "needs_info", "draft"}

\* the disabled conditions of the four status buttons of a row
ChangeEnabled(to, status) ==
    CASE to = "in_review" -> status \in {"submitted", "needs_info"}
      [] to = "needs_info" -> status \in {"submitted", "in_review"}
      [] to = "approved" -> status \in {"in_review"}
      [] to = "rejected" ->
           status \in {"submitted", "in_review", "needs_info", "draft"}

\* a status button of row i: changeStatus(a.id, to) up to its await
ChangeStatus(i, to) ==
    /\ i \in DOMAIN admin.apps
    /\ ChangeEnabled(to, admin.apps[i].status)
    /\ AdminClick([Req("adminChange", token) EXCEPT !.id = admin.apps[i].id,
                                                   !.to = to])

\* refresh after its await, apiAdminListApplications resolved
AdminListOk(r) ==
    /\ r.op = "adminList"
    /\ Render(token, me, route, login, register, student,
              IF r.live
              THEN [admin EXCEPT !.apps = AdminApplications,
                                 !.busy = FALSE]
              ELSE admin,
              Recv(net, r))
    /\ ev' = Ev("AdminListOk", r, NoResp)
    /\ UNCHANGED <<storage, loadingMe, db>>

\* the catch and finally of refresh or changeStatus
AdminFail(r, resp) ==
    /\ ViewOf(r.op) = "AdminDashboard"
    /\ LET fallback == IF r.op = "adminList" THEN "Failed to load applications"
                       ELSE "Failed to change status"
       IN  Render(token, me, route, login, register, student,
                  IF r.live THEN Failed(admin, resp, fallback) ELSE admin,
                  Recv(net, r))
    /\ ev' = Ev("AdminFail", r, resp)
    /\ UNCHANGED <<storage, loadingMe, db>>

\* the call of refresh() that ends changeStatus, in that handler's closure
ThenAdminList(r) ==
    [Req("adminList", r.token) EXCEPT !.live = r.live, !.cont = r.op]

\* changeStatus after its await, apiAdminChangeStatus resolved: setInfo(...),
\* then refresh() up to its await
AdminDone(r) ==
    /\ r.op = "adminChange"
    /\ db' = WithStatus(r.id, r.to)
    /\ Render(token, me, route, login, register, student,
              IF r.live THEN Starting(admin) ELSE admin,
              Send(Recv(net, r), ThenAdminList(r)))
    /\ ev' = Ev("AdminDone", r, NoResp)
    /\ UNCHANGED <<storage, loadingMe>>

----------------------------------------------------------------------------

Next ==
    \/ Reload
    \/ \E to \in Routes : ClickLink(to)
    \/ RefreshSession
    \/ Logout
    \/ \E email \in Emails : LoginSubmit(email)
    \/ \E email \in NewEmails : RegisterSubmit(email)
    \/ StudentRefresh
    \/ CreateDraft
    \/ \E i \in 1..MaxApps : SubmitApp(i)
    \/ \E i \in 1..MaxApps : WithdrawApp(i)
    \/ AdminRefresh
    \/ \E i \in 1..MaxApps, to \in ChangeTargets : ChangeStatus(i, to)
    \/ \E r \in Requests : MeOk(r)
    \/ \E r \in Requests : AuthOk(r)
    \/ \E r \in Requests : ListOk(r)
    \/ \E r \in Requests : StudentDone(r)
    \/ \E r \in Requests : AdminListOk(r)
    \/ \E r \in Requests : AdminDone(r)
    \/ \E r \in Requests, resp \in FailResponses : MeFail(r, resp)
    \/ \E r \in Requests, resp \in FailResponses : AuthFail(r, resp)
    \/ \E r \in Requests, resp \in FailResponses : StudentFail(r, resp)
    \/ \E r \in Requests, resp \in FailResponses : AdminFail(r, resp)

Spec == Init /\ [][Next]_vars

----------------------------------------------------------------------------
(* The API client's error messages on their own: the login and register    *)
(* forms, every request answered by a failure, the failures drawn from a   *)
(* wider set of status codes and bodies.                                    *)

ErrStatuses == {400, 401, 403, 404, 409, 422, 500, 503}

\* [ctJson, valid, data]: the declared content type, whether the body is
\* valid JSON, and the JSON value (or the raw text) of the body
ErrBodies == {
    <<TRUE, TRUE, JObj(<< <<"detail", JStr("Invalid token")>> >>)>>,
    <<TRUE, TRUE, JObj(<< <<"detail", JStr("")>> >>)>>,
    <<TRUE, TRUE, JObj(<< <<"detail", JObj(<< <<"msg", JStr("field required")>> >>)>> >>)>>,
    <<TRUE, TRUE, JObj(<< <<"detail", JNum(7)>> >>)>>,
    <<TRUE, TRUE, JObj(<< <<"detail", JNull>> >>)>>,
    <<TRUE, TRUE, JObj(<< <<"error", JStr("Not found")>>, <<"code", JNum(4)>> >>)>>,
    <<TRUE, TRUE, JObj(<<>>)>>,
    <<TRUE, TRUE, JNull>>,
    <<TRUE, TRUE, JStr("Service unavailable")>>,
    <<TRUE, TRUE, JNum(42)>>,
    <<TRUE, FALSE, JStr("<html>Bad Gateway</html>")>>,
    <<FALSE, TRUE, JObj(<< <<"detail", JStr("Email already registered")>> >>)>>,
    <<FALSE, FALSE, JStr("Internal Server Error")>>
}

AllFailResponses ==
    {[status |-> st, ctJson |-> b[1], valid |-> b[2], data |-> b[3]] :
        st \in ErrStatuses, b \in ErrBodies}

InitErr ==
    /\ Init
    /\ storage = NoItem
    /\ route \in {"/login", "/register"}

NextErr ==
    \/ \E email \in Emails : LoginSubmit(email)
    \/ \E email \in NewEmails : RegisterSubmit(email)
    \/ \E r \in Requests, resp \in AllFailResponses : AuthFail(r, resp)

SpecErr == InitErr /\ [][NextErr]_vars

----------------------------------------------------------------------------
(* Properties *)

\* the requests on the wire, whatever became of the components awaiting them
Wire(B) == BagOfAll(LAMBDA r : [r EXCEPT !.live = TRUE], B)

\* request q is sent in this step
SentNow(q) == CopiesIn(q, Wire(net')) > CopiesIn(q, Wire(net))

\* the error text the component that started a call of operation op shows
\* (the shell and TopNav have none)
ErrorIn(op) ==
    CASE ViewOf(op) = "LoginPage" -> login.error
      [] ViewOf(op) = "RegisterPage" -> register.error
      [] ViewOf(op) = "StudentDashboard" -> student.error
      [] ViewOf(op) = "AdminDashboard" -> admin.error
      [] OTHER -> ""

\* the same text after the step
ErrorInNext(op) ==
    CASE ViewOf(op) = "LoginPage" -> login'.error
      [] ViewOf(op) = "RegisterPage" -> register'.error
      [] ViewOf(op) = "StudentDashboard" -> student'.error
      [] ViewOf(op) = "AdminDashboard" -> admin'.error
      [] OTHER -> ""

Failures == {"MeFail", "AuthFail", "StudentFail", "AdminFail"}

Parsed(resp) == ~parseJsonOrText(resp).threw

HasStringDetail(body) ==
    body.t = "object" /\ Get(body, "detail").t = "string"

C2_BearerOfStoredToken ==
    [][\A q \in BagToSet(Wire(net')) :
          (SentNow(q) /\ q.op \notin {"login", "register"} /\ token' # "")
              => q.auth = "Bearer " \o token']_vars

Protected == {"/student", "/admin"}

C5_TokenMatchesStorage == token = StoredToken(storage)

\* C5 witness: a login or registration has stored its token and its refresh
\* of the current user is in flight.
C5_Witness ==
    /\ token # "" /\ storage = token
    /\ \E r \in Requests : r.op = "me" /\ r.cont = "onAuthed" /\ r.token = token

\* C6: the student dashboard is rendered only with a token and the role
\* "student", the admin dashboard only with a token and the role "admin", and
\* without a token neither route is stayed on (both redirect to login).
C6_RoutesGated ==
    /\ screen = "StudentDashboard" => (token # "" /\ "student" \in Roles(me))
    /\ screen = "AdminDashboard" => (token # "" /\ "admin" \in Roles(me))
    /\ student # StudentInit => screen = "StudentDashboard"
    /\ admin # AdminInit => screen = "AdminDashboard"
    /\ token = "" => (route \notin Protected /\ screen \notin
                         {"StudentDashboard", "AdminDashboard", "AccessDenied"})

\* C6 witness: the admin dashboard is rendered and has loaded applications.
C6_Witness ==
    /\ screen = "AdminDashboard" /\ admin.apps # <<>>
    /\ "admin" \in Roles(me)

\* the requests in flight whose component is mounted and awaits them
Outstanding(view) ==
    BagCardinality(BagOfAll(LAMBDA r : r.op,
        [r \in {q \in Requests : q.live /\ ViewOf(q.op) = view} |-> net[r]]))

\* C7 as stated: each view, and the app shell, has at most one outstanding
\* request at a time.
C7_OneRequestPerView ==
    \A view \in {"LoginPage", "RegisterPage", "StudentDashboard",
                 "AdminDashboard", "AppShell"} : Outstanding(view) <= 1

Row(apps, id) == {i \in DOMAIN apps : apps[i].id = id}

\* C8: a submit is sent only for a row last known as draft or needs_info, a
\* withdraw only for one not approved, rejected or withdrawn, an admin change
\* to in_review only from submitted or needs_info, to needs_info only from
\* submitted or in_review, to approved only from in_review, to rejected only
\* from draft, submitted, in_review or needs_info; so never an admin change
\* for a row last known as approved, rejected or withdrawn.
C8_OnlyConsistentTransitions ==
    [][\A q \in BagToSet(Wire(net')) : SentNow(q) =>
          /\ q.op = "submit" =>
               \E i \in Row(student.apps, q.id) :
                   student.apps[i].status \in {"draft", "needs_info"}
          /\ q.op = "withdraw" =>
               \E i \in Row(student.apps, q.id) :
                   student.apps[i].status \notin {"approved", "rejected", "withdrawn"}
          /\ q.op = "adminChange" =>
               \E i \in Row(admin.apps, q.id) :
                   LET st == admin.apps[i].status
                   IN  /\ st \notin {"approved", "rejected", "withdrawn"}
                       /\ q.to = "in_review" => st \in {"submitted", "needs_info"}
                       /\ q.to = "needs_info" => st \in {"submitted", "in_review"}
                       /\ q.to = "approved" => st = "in_review"
                       /\ q.to = "rejected" =>
                            st \in {"draft", "submitted", "in_review", "needs_info"}
                       /\ q.to \in ChangeTargets]_vars

\* C8 witness: an approval is in flight for a row the admin dashboard shows
\* as in_review, and the backend still holds it so.
C8_Witness ==
    \E r \in Requests :
        /\ r.op = "adminChange" /\ r.to = "approved" /\ r.live
        /\ \E i \in Row(admin.apps, r.id) : admin.apps[i].status = "in_review"

HasDraft(apps, program, term) ==
    \E i \in DOMAIN apps :
        /\ apps[i].program = program
        /\ apps[i].term = term
        /\ apps[i].status = "draft"

C10_EveryFailureShown == ev.act \in Failures => ErrorIn(ev.op) # ""

\* C10, amended: every failed login, register, list, create, submit,
\* withdraw, admin list or admin change leaves a non-empty error message in
\* the view that started it, provided that view is still mounted when the
\* failure arrives; a failed fetch-current-user call puts no message in any
\* view (it is logged to the console and the session is cleared).
C10_FailureShownWhereMounted ==
    [][/\ (ev'.act \in Failures \ {"MeFail"} /\ ev'.live)
            => (ErrorInNext(ev'.op) # "" /\ screen' = ViewOf(ev'.op))
       /\ ev'.act = "MeFail"
            => /\ login'.error \in {"", login.error}
               /\ register'.error \in {"", register.error}
               /\ student'.error \in {"", student.error}
               /\ admin'.error \in {"", admin.error}]_vars

\* C10 witness: a list call failed with an empty "detail" and the dashboard
\* shows its own fallback text.
C10_Witness ==
    /\ ev.act = "StudentFail" /\ ev.op = "list" /\ ev.live
    /\ ev.message = ""
    /\ student.error = "Failed to load applications"

\* the fetch-current-user requests whose response this step delivers
MeAnswered(r) == r.op = "me" /\ CopiesIn(r, net') < CopiesIn(r, net)

\* C11 as stated: a fetch-current-user response of an earlier token never
\* affects a later session: while a token is held, a loaded current user is
\* the backend's record for that token, and the failure of a request sent
\* with another token leaves the held token in place.
C11_StaleMeNeverAffectsSession ==
    [][/\ (token' # "" /\ ~me'.null) => me' = UserOf(AuthHeader(token'))
       /\ \A r \in Requests :
             (MeAnswered(r) /\ ev'.act = "MeFail" /\ token # ""
                 /\ r.token # token) => token' = token]_vars

\* C12 as stated: whenever a token is held and no fetch-current-user request
\* is in flight, the current user is loaded, the state right after a page
\* load with a stored token included.
C12_UserLoadedWhenIdle ==
    (token # "" /\ ~\E r \in Requests : r.op = "me") => ~me.null

\* C13 as stated: when the fetch-current-user call that follows a successful
\* login (or register) of the session still held succeeds, the user rests on
\* /admin if their roles include "admin" and on /student otherwise.
C13_LoginLandsOnRoleRoute ==
    [][\A r \in Requests :
          (MeAnswered(r) /\ r.cont = "onAuthed" /\ r.token = token
              /\ token' = token /\ ~me'.null /\ me' = UserOf(r.auth))
          => route' = IF "admin" \in Roles(me') THEN "/admin" ELSE "/student"]_vars

====
